---- MODULE Spec2Model ----
(***************************************************************************)
(* Chain Manager of the copilot plugin: the static plain and retrieval     *)
(* pipelines, the registry's active chat model, the settings it reads, and *)
(* the asynchronous setChain calls in flight.  One step of the model is    *)
(* one task of the event loop: an external event or the return of an I/O   *)
(* call, the synchronous code it runs, and the queued continuations        *)
(* (microtasks) that run before the next task.                             *)
(***************************************************************************)
EXTENDS Integers, Sequences, FiniteSets, Bags, TLC

\* At most this many setChain calls are suspended at an await at once.
MaxPending == 2
\* The longest transcript handed to updateMemoryWithLoadedMessages.
MaxMessages == 4
\* The longest list of configured models that a lookup searches.
MaxModels == 3

(* ------------------------------ values -------------------------------- *)

LLM_CHAIN == "llm_chain"
VAULT_QA_CHAIN == "vault_qa"
COPILOT_PLUS_CHAIN == "copilot_plus"
\* a defined value that is none of the three modes
UNKNOWN_CHAIN == "unknown_chain"
\* the chain type argument left undefined
UNDEFINED == "undefined"

SupportedChainTypes == {LLM_CHAIN, VAULT_QA_CHAIN, COPILOT_PLUS_CHAIN}
StoredChainTypes == SupportedChainTypes \cup {UNKNOWN_CHAIN}

ON_MODE_SWITCH == "ON MODE SWITCH"
NEVER == "NEVER"
VAULT_VECTOR_STORE_STRATEGY == {ON_MODE_SWITCH, NEVER}

GPT4o == [name |-> "gpt-4o", provider |-> "openai"]
O1Mini == [name |-> "o1-mini", provider |-> "openai"]
AzureGPT4 == [name |-> "gpt-4", provider |-> "azure openai"]
BUILTIN_CHAT_MODELS == <<GPT4o, O1Mini>>
\* getSettings().activeModels
activeModels == <<GPT4o, O1Mini, AzureGPT4>>
\* the providers whose API key is set in the settings
ProvidersWithApiKey == {"openai"}

\* model keys "name|provider", held as the segments that split("|") yields;
\* the last one names no configured model
ModelKeys == { <<"gpt-4o", "openai">>, <<"o1-mini", "openai">>, <<"gpt-4", "azure openai">>,
               <<"o1-mini", "azure openai">> }

NoCustomModel == [name |-> "", provider |-> ""]
NoModel == [name |-> "", provider |-> "", ok |-> FALSE]

\* prompts, as the sequence of their message roles
NoPrompt == <<>>
ChatPrompt == <<"system", "history", "human">>
NoSystemPrompt == <<"history", "human">>
O1Prompt == <<"ai", "history", "human">>

NoChain == [kind |-> "none", llm |-> NoModel, prompt |-> NoPrompt]
NoTurn == [status |-> "none", runner |-> "", pipeline |-> NoChain, chatModel |-> NoModel, error |-> ""]

NoChatModelMsg == "Chat model is not initialized properly"
NoChainTypeMsg == "No chain type set"
EmbeddingsMsg == "Error getting embeddings API"
DatabaseMsg == "Database failed to initialize"
UnsupportedMsg == "Unsupported chain type"

USER_SENDER == "user"
AI_SENDER == "ai"
\* ChatMessage: the sender and the text; a transcript's k-th text is written k
Senders == {USER_SENDER, AI_SENDER}
Transcripts ==
  UNION { { [k \in 1..n |-> [sender |-> f[k], message |-> k]] : f \in [1..n -> Senders] } :
          n \in 0..MaxMessages }
\* no updateMemoryWithLoadedMessages call has been made
NoLoad == [messages |-> <<>>, i |-> 0, pc |-> "none"]
NoConfigurationMsg == "No model configuration found"
\* configured models as the settings may hold them: entries that agree on
\* (name, provider) can still differ in the rest
ConfiguredModels ==
  [name : {"gpt-4o", "o1-mini"}, provider : {"openai"}, baseUrl : {"url1", "url2"}]
ModelLists == UNION { [1..n -> ConfiguredModels] : n \in 0..MaxModels }
\* no lookup has been asked for
NoLookup == [modelKey |-> <<>>, activeModels |-> <<>>, found |-> NoCustomModel,
             result |-> [model |-> NoCustomModel, error |-> ""], pc |-> "none"]

\* no turn has been handed to a runner
NoRun == [pc |-> "none", abortController |-> "", aborted |-> FALSE,
          updateCurrentAiMessage |-> 0, updatesAtAbort |-> 0, addMessage |-> 0,
          memoryAtCall |-> <<>>]

\* no query has been put to a retriever
NoRetrieval == [pc |-> "none", maxSourceChunks |-> 0, candidates |-> <<>>, documents |-> <<>>]

\* getChatContext has not been called
NoContext == [pc |-> "none", chatHistory |-> <<>>, contextSize |-> 0, result |-> <<>>]

\* getNotesFromPath has not been called
NoNotes == [pc |-> "none", files |-> <<>>, path |-> <<>>, result |-> <<>>]

\* extractChatHistory has not been called
NoExtract == [pc |-> "none", history |-> <<>>, result |-> <<>>]

\* the document lists that retrievals hand to their callback
DocumentLists == {<<>>, <<"note1.md">>, <<"note2.md", "note1.md">>}

(* ------------------------------ state --------------------------------- *)

VARIABLES
  modelKey,                \* settings: the active model key
  chainType,               \* settings: the active chain type
  embeddingsAPI,           \* embeddingsManager.getEmbeddingsAPI() is present
  indexVaultToVectorStore, \* settings: the reindex strategy (not changed while running)
  db,                      \* vectorStoreManager.getDb() is present
  chatModel,               \* chatModelManager's active model handle
  chain,                   \* ChainManager.chain
  retrievalChain,          \* ChainManager.retrievalChain
  calls,                   \* the bag of setChain calls suspended at an await on I/O
  memory,                  \* memoryManager's history: the saved input/output pairs
  load,                    \* the updateMemoryWithLoadedMessages call and its position
  retrievedDocuments,      \* ChainManager.retrievedDocuments
  run,                     \* the turn a runner executes: its handle, what it has streamed
  retrieval,               \* a query to the hybrid retriever: its candidates, what it returned
  laterLoad,               \* a second updateMemoryWithLoadedMessages call, started while the first is suspended
  context,                 \* a getChatContext call: its history and size, what it returned
  notes,                   \* a getNotesFromPath call: the vault's files and the path, what it returned
  extract,                 \* an extractChatHistory call: the memory's history, what it returned
  lookup                   \* a model lookup: its key, the models searched, what it gave

vars == <<modelKey, chainType, embeddingsAPI, indexVaultToVectorStore, db,
          chatModel, chain, retrievalChain, calls, memory, load, retrievedDocuments,
          run, retrieval, laterLoad, context, notes, extract, lookup>>

\* The state as a record, handed through the code of a task.  Beside the
\* variables it holds what the task does that no variable keeps: the queue of
\* continuations (micro), the setChain promises it settles (settled; nobody
\* awaits or catches them), the notices it shows, and the turn it dispatches.
Cur ==
  [modelKey |-> modelKey, chainType |-> chainType,
   embeddingsAPI |-> embeddingsAPI, indexVaultToVectorStore |-> indexVaultToVectorStore,
   db |-> db, chatModel |-> chatModel, chain |-> chain, retrievalChain |-> retrievalChain,
   calls |-> calls, memory |-> memory, retrievedDocuments |-> retrievedDocuments,
   micro |-> <<>>, settled |-> {}, notices |-> {}, turn |-> NoTurn]

Assign(s) ==
  /\ modelKey' = s.modelKey
  /\ chainType' = s.chainType
  /\ embeddingsAPI' = s.embeddingsAPI
  /\ indexVaultToVectorStore' = s.indexVaultToVectorStore
  /\ db' = s.db
  /\ chatModel' = s.chatModel
  /\ chain' = s.chain
  /\ retrievalChain' = s.retrievalChain
  /\ calls' = s.calls
  /\ memory' = s.memory
  /\ retrievedDocuments' = s.retrievedDocuments

Apply(s) ==
  /\ Assign(s)
  /\ load' = load
  /\ lookup' = lookup
  /\ extract' = extract
  /\ notes' = notes
  /\ context' = context
  /\ laterLoad' = laterLoad
  /\ retrieval' = retrieval
  /\ run' = run

(* ------------------------- collaborators ------------------------------ *)

\* chatModelManager.validateChatModel(handle)
chatModelManager_validateChatModel(h) == h.ok

\* chatModelManager.setChatModel(customModel): the model becomes the active one
setChatModel(s, m) ==
  [s EXCEPT !.chatModel = [name |-> m.name, provider |-> m.provider, 
                         ok |-> m.provider \in ProvidersWithApiKey]]

\* ChainFactory.createNewLLMChain({llm, memory, prompt, abortController})
createNewLLMChain(llm, prompt) ==
  [kind |-> "llm", llm |-> llm, prompt |-> prompt]

\* ChainFactory.createConversationalRetrievalChain({llm, retriever, systemMessage}, ...)
createConversationalRetrievalChain(llm) ==
  [kind |-> "retrieval", llm |-> llm, prompt |-> ChatPrompt]

\* memoryManager.clearChatMemory()
clearChatMemory(mem) == <<>>

\* memoryManager.getMemory().saveContext({input}, {output})
saveContext(mem, input, output) == Append(mem, [input |-> input, output |-> output])

(* ------------------------------ utils --------------------------------- *)

isLLMChain(c) == c.kind = "llm" /\ c.llm.name # ""

isRetrievalQAChain(c) == c.kind = "retrieval"

isSupportedChain(c) == isLLMChain(c) \/ isRetrievalQAChain(c)

(* --------------------------- ChainManager ----------------------------- *)

getChain == chain

getRetrievalChain == retrievalChain

validateChainType(t) == t # UNDEFINED

\* the promise of a setChain call settles; no caller in the manager awaits it
Settle(s, r) == [s EXCEPT !.settled = @ \cup {r}]

Settlement(t, status, exit, reindex) ==
  [chainType |-> t, status |-> status, exit |-> exit, reindex |-> reindex]

\* ChainManager.findCustomModel, the settings' activeModels being models
findCustomModelIn(key, models) ==
  LET name == IF Len(key) >= 1 THEN key[1] ELSE ""
      provider == IF Len(key) >= 2 THEN key[2] ELSE ""
      hits == { i \in 1..Len(models) :
                  models[i].name = name /\ models[i].provider = provider }
  IN IF hits = {} THEN NoCustomModel
     ELSE models[CHOOSE i \in hits : \A j \in hits : i <= j]

findCustomModel(key) == findCustomModelIn(key, activeModels)

\* utils.findCustomModel(modelKey, activeModels): the model, or the error thrown
utils_findCustomModel(key, models) ==
  LET model == findCustomModelIn(key, models)
  IN IF model = NoCustomModel
     THEN [model |-> NoCustomModel, error |-> NoConfigurationMsg]
     ELSE [model |-> model, error |-> ""]

MicroPcs == {"throwEmbeddings", "resume"}

\* mutant of initializeQAChain: the embeddings API is not checked
initializeQAChainUnchecked(s, c) ==
  IF ~s.db THEN [c EXCEPT !.pc = "initializeDB"]
  ELSE IF c.refreshIndex THEN [c EXCEPT !.pc = "indexVault"]
  ELSE [c EXCEPT !.pc = "resume"]

\* mutant of initializeQAChain: the vault is reindexed whatever the options say
initializeQAChainReindexing(s, c) ==
  IF ~s.embeddingsAPI THEN [c EXCEPT !.pc = "throwEmbeddings"]
  ELSE IF ~s.db THEN [c EXCEPT !.pc = "initializeDB"]
  ELSE [c EXCEPT !.pc = "indexVault"]

\* initializeQAChain up to its first await, for the call record c
initializeQAChain(s, c) ==
  IF ~s.embeddingsAPI THEN [c EXCEPT !.pc = "throwEmbeddings"]
  ELSE IF ~s.db THEN [c EXCEPT !.pc = "initializeDB"]
  ELSE IF c.refreshIndex THEN [c EXCEPT !.pc = "indexVault"]
  ELSE [c EXCEPT !.pc = "resume"]

RECURSIVE setChain(_, _, _)

\* mutant of onChainTypeChange: the switch empties the memory
onChainTypeChangeClearing(s) ==
  setChain([s EXCEPT !.memory = <<>>], s.chainType,
           [refreshIndex |-> s.indexVaultToVectorStore = ON_MODE_SWITCH
                             /\ s.chainType \in {VAULT_QA_CHAIN, COPILOT_PLUS_CHAIN},
            prompt |-> NoPrompt])

\* the handler asking for a reindex whatever the strategy
onChainTypeChangeReindexing(s) ==
  setChain(s, s.chainType,
           [refreshIndex |-> s.chainType \in {VAULT_QA_CHAIN, COPILOT_PLUS_CHAIN},
            prompt |-> NoPrompt])

\* the handler registered with subscribeToChainTypeChange
onChainTypeChange(s) ==
  setChain(s, s.chainType,
           [refreshIndex |-> s.indexVaultToVectorStore = ON_MODE_SWITCH
                             /\ s.chainType \in {VAULT_QA_CHAIN, COPILOT_PLUS_CHAIN},
            prompt |-> NoPrompt])

\* aiParams.setChainType: subscribers are told of a change of value
setChainType(s, t) ==
  IF s.chainType = t THEN s ELSE onChainTypeChange([s EXCEPT !.chainType = t])

\* mutant of setChainLLM: the retrieval pipeline is dropped with the switch
setChainLLMOnly(s, prompt) ==
  Settle(setChainType([s EXCEPT !.chain = createNewLLMChain(s.chatModel, prompt),
                                !.retrievalChain = NoChain],
                      LLM_CHAIN),
         Settlement(LLM_CHAIN, "fulfilled", "installed", FALSE))

\* setChain's LLM_CHAIN branch
setChainLLM(s, prompt) ==
  Settle(setChainType([s EXCEPT !.chain = createNewLLMChain(s.chatModel, prompt)],
                      LLM_CHAIN),
         Settlement(LLM_CHAIN, "fulfilled", "installed", FALSE))

\* mutant of setChainNoChatModel: a notice and an error, as validateChatModel does
setChainNoChatModelThrows(s, t) ==
  Settle([s EXCEPT !.notices = @ \cup {NoChatModelMsg}],
         Settlement(t, "rejected", NoChatModelMsg, FALSE))

\* setChain finds no valid chat model: it logs to the console and returns
setChainNoChatModel(s, t) ==
  Settle(s, Settlement(t, "fulfilled", "noModel", FALSE))

\* setChain from its call to its first await (or to its end, without one)
setChain(s, t, options) ==
  IF ~chatModelManager_validateChatModel(s.chatModel)
  THEN setChainNoChatModel(s, t)
  ELSE IF ~validateChainType(t)
  THEN Settle(s, Settlement(t, "rejected", NoChainTypeMsg, FALSE))
  ELSE LET prompt == IF options.prompt # NoPrompt THEN options.prompt ELSE ChatPrompt
           \* the locals of the call; the VAULT_QA branch never reads the prompt
           c == initializeQAChain(s,
                  [chainType |-> t, refreshIndex |-> options.refreshIndex,
                   prompt |-> IF t = VAULT_QA_CHAIN THEN NoPrompt ELSE prompt,
                   chatModel |-> s.chatModel, pc |-> "start"])
       IN CASE t = LLM_CHAIN -> setChainLLM(s, prompt)
            [] t \in {VAULT_QA_CHAIN, COPILOT_PLUS_CHAIN} ->
                 IF c.pc \in MicroPcs
                 THEN [s EXCEPT !.micro = Append(@, c)]
                 ELSE [s EXCEPT !.calls = @ (+) SetToBag({c})]
            [] OTHER ->
                 Settle(s, Settlement(t, "fulfilled", "unsupported", FALSE))

\* setChain after `await this.initializeQAChain(options)` has returned
afterInitializeQAChain(s, c) ==
  IF c.chainType = VAULT_QA_CHAIN
  THEN Settle(setChainType([s EXCEPT !.retrievalChain =
                                createConversationalRetrievalChain(c.chatModel)],
                           VAULT_QA_CHAIN),
              Settlement(c.chainType, "fulfilled", "installed", c.refreshIndex))
  ELSE Settle(setChainType([s EXCEPT !.chain =
                                createNewLLMChain(c.chatModel, c.prompt)],
                           COPILOT_PLUS_CHAIN),
              Settlement(c.chainType, "fulfilled", "installed", c.refreshIndex))

\* mutant of initializeQAChainThrows: the failed rebuild unsets the pipeline
initializeQAChainThrowsUnsetting(s, c, msg) ==
  Settle(IF c.chainType = VAULT_QA_CHAIN
         THEN [s EXCEPT !.retrievalChain = NoChain]
         ELSE [s EXCEPT !.chain = NoChain],
         Settlement(c.chainType, "rejected", msg, c.pc = "indexVault"))

\* initializeQAChain throws: the setChain call awaiting it rejects
initializeQAChainThrows(s, c, msg) ==
  Settle(s, Settlement(c.chainType, "rejected", msg, c.pc = "indexVault"))

\* mutant of afterInitializeDB: the index that initializeDB returns is not checked
afterInitializeDBUnchecked(s, c, ok) ==
  LET r == [s EXCEPT !.calls = @ (-) SetToBag({c})]
  IN IF c.refreshIndex
     THEN [r EXCEPT !.db = ok, !.calls = @ (+) SetToBag({[c EXCEPT !.pc = "indexVault"]})]
     ELSE afterInitializeQAChain([r EXCEPT !.db = ok], c)

\* initializeQAChain after `await this.vectorStoreManager.initializeDB()`, and the
\* setChain call c that awaits it
afterInitializeDB(s, c, ok) ==
  LET r == [s EXCEPT !.calls = @ (-) SetToBag({c})]
  IN IF ~ok
     THEN initializeQAChainThrows(r, c, DatabaseMsg)
     ELSE IF c.refreshIndex
     THEN [r EXCEPT !.db = TRUE, !.calls = @ (+) SetToBag({[c EXCEPT !.pc = "indexVault"]})]
     ELSE afterInitializeQAChain([r EXCEPT !.db = TRUE], c)

\* initializeQAChain after `await this.vectorStoreManager.indexVaultToVectorStore()`
afterIndexVault(s, c) ==
  afterInitializeQAChain([s EXCEPT !.calls = @ (-) SetToBag({c})], c)

\* mutant of createChainWithNewModel: an unknown key leaves the active model
createChainWithNewModelKeepingModel(s) ==
  LET found == findCustomModel(s.modelKey)
  IN setChain(IF found = NoCustomModel THEN s ELSE setChatModel(s, found), s.chainType,
              [refreshIndex |-> FALSE, prompt |-> NoPrompt])

createChainWithNewModel(s) ==
  LET found == findCustomModel(s.modelKey)
      customModel == IF found = NoCustomModel THEN BUILTIN_CHAT_MODELS[1] ELSE found
  IN setChain(setChatModel(s, customModel), s.chainType,
              [refreshIndex |-> FALSE, prompt |-> NoPrompt])

validateChainInitialization(s) ==
  IF s.chain = NoChain \/ ~isSupportedChain(s.chain)
  THEN setChain(s, s.chainType, [refreshIndex |-> FALSE, prompt |-> NoPrompt])
  ELSE s

\* mutant of getChainRunner: an unknown chain type gets the plain runner
getChainRunnerDefaulting(t) ==
  CASE t = VAULT_QA_CHAIN -> "VaultQAChainRunner"
    [] t = COPILOT_PLUS_CHAIN -> "CopilotPlusChainRunner"
    [] OTHER -> "LLMChainRunner"

getChainRunner(t) ==
  CASE t = LLM_CHAIN -> "LLMChainRunner"
    [] t = VAULT_QA_CHAIN -> "VaultQAChainRunner"
    [] t = COPILOT_PLUS_CHAIN -> "CopilotPlusChainRunner"
    [] OTHER -> ""

\* the pipeline a runner reads when its run starts
RunnerPipeline(s, runner) ==
  IF runner = "VaultQAChainRunner" THEN s.retrievalChain ELSE s.chain

startsWithO1(name) == name \in {"o1-mini"}

\* mutant of validateChatModel: the model is not checked
validateChatModelSkipped(s) == s

\* validateChatModel: a notice and an error (the caller's promise rejects) when
\* the registry's model does not validate
validateChatModel(s) ==
  IF ~chatModelManager_validateChatModel(s.chatModel)
  THEN [s EXCEPT !.notices = @ \cup {NoChatModelMsg},
                 !.turn = [NoTurn EXCEPT !.status = "rejected", !.error = NoChatModelMsg]]
  ELSE s

runChain(s, ignoreSystemMessage) ==
  IF validateChatModel(s).turn.status = "rejected"
  THEN validateChatModel(s)
  ELSE LET s1 == validateChainInitialization(s)
           isO1Model == startsWithO1(s1.chatModel.name)
           effectivePrompt == IF isO1Model THEN O1Prompt ELSE NoSystemPrompt
           s2 == IF ignoreSystemMessage \/ isO1Model
                 THEN setChain(s1, s1.chainType,
                               [refreshIndex |-> FALSE, prompt |-> effectivePrompt])
                 ELSE s1
           runner == getChainRunner(s2.chainType)
       IN IF runner = ""
          THEN [s2 EXCEPT !.turn = [NoTurn EXCEPT !.status = "rejected",
                                                  !.error = UnsupportedMsg]]
          ELSE [s2 EXCEPT !.turn = [status |-> "running", runner |-> runner,
                                    pipeline |-> RunnerPipeline(s2, runner),
                                    chatModel |-> s2.chatModel, error |-> ""]]

\* mutant of loopUntilAwait: the sender of the first entry is not looked at
RECURSIVE loopUntilAwaitAnySender(_)
loopUntilAwaitAnySender(l) ==
  IF l.i > Len(l.messages) THEN [l EXCEPT !.pc = "done"]
  ELSE IF l.i + 1 <= Len(l.messages)
       THEN [l EXCEPT !.pc = "saveContext"]
       ELSE loopUntilAwaitAnySender([l EXCEPT !.i = @ + 2])

\* the loop of updateMemoryWithLoadedMessages from entry l.i (the first entry is
\* 1) up to its next await of saveContext, or to its end
RECURSIVE loopUntilAwait(_)
loopUntilAwait(l) ==
  IF l.i > Len(l.messages) THEN [l EXCEPT !.pc = "done"]
  ELSE IF l.i + 1 <= Len(l.messages) /\ l.messages[l.i].sender = USER_SENDER
       THEN [l EXCEPT !.pc = "saveContext"]
       ELSE loopUntilAwait([l EXCEPT !.i = @ + 2])

(* ------------------------------- tasks -------------------------------- *)

RECURSIVE Task(_)

\* the rest of a task: the queued continuations run, oldest first, until none is left
Task(s) ==
  IF s.micro = <<>> THEN s
  ELSE LET c == Head(s.micro)
           r == [s EXCEPT !.micro = Tail(@)]
       IN Task(IF c.pc = "throwEmbeddings"
               THEN initializeQAChainThrows(r, c, EmbeddingsMsg)
               ELSE afterInitializeQAChain(r, c))

Step(s) == BagCardinality(s.calls) <= MaxPending /\ Apply(s)

ModelKeyChange(k) ==
  /\ k # modelKey
  /\ Step(Task(createChainWithNewModel([Cur EXCEPT !.modelKey = k])))

\* a setting changes: the embedding provider's configuration (the embeddings API
\* comes or goes), or one that the manager reads nothing of
SettingsChange(field) ==
  /\ field \in {"embeddings", "other"}
  /\ Step(Task(createChainWithNewModel(
       IF field = "embeddings" THEN [Cur EXCEPT !.embeddingsAPI = ~@] ELSE Cur)))

ChainTypeChange(t) ==
  /\ t # chainType
  /\ Step(Task(setChainType(Cur, t)))

RunChain(ignoreSystemMessage) ==
  /\ ignoreSystemMessage \in BOOLEAN
  /\ Step(Task(runChain(Cur, ignoreSystemMessage)))

\* vectorStoreManager.initializeDB() returns to the call c, with an index or without
InitializeDBReturns(c, ok) ==
  /\ c.pc = "initializeDB"
  /\ Apply(Task(afterInitializeDB(Cur, c, ok)))

\* vectorStoreManager.indexVaultToVectorStore() completes for the call c
IndexVaultReturns(c) ==
  /\ c.pc = "indexVault"
  /\ Apply(Task(afterIndexVault(Cur, c)))

\* the state the constructor leaves: statics unset, the memory empty,
\* createChainWithNewModel called
Constructed(k, t, emb, strategy, d) ==
  Task(createChainWithNewModel(
         [modelKey |-> k, chainType |-> t, embeddingsAPI |-> emb,
          indexVaultToVectorStore |-> strategy, db |-> d, chatModel |-> NoModel,
          chain |-> NoChain, retrievalChain |-> NoChain, calls |-> EmptyBag,
          memory |-> <<>>, retrievedDocuments |-> <<>>, micro |-> <<>>,
          settled |-> {}, notices |-> {}, turn |-> NoTurn]))

Start(s) ==
  /\ modelKey = s.modelKey
  /\ chainType = s.chainType
  /\ embeddingsAPI = s.embeddingsAPI
  /\ indexVaultToVectorStore = s.indexVaultToVectorStore
  /\ db = s.db
  /\ chatModel = s.chatModel
  /\ chain = s.chain
  /\ retrievalChain = s.retrievalChain
  /\ calls = s.calls
  /\ memory = s.memory
  /\ retrievedDocuments = s.retrievedDocuments
  /\ load = NoLoad
  /\ lookup = NoLookup
  /\ run = NoRun
  /\ extract = NoExtract
  /\ notes = NoNotes
  /\ context = NoContext
  /\ laterLoad = NoLoad
  /\ retrieval = NoRetrieval

Init ==
  \E k \in ModelKeys, t \in StoredChainTypes, emb \in BOOLEAN,
     strategy \in VAULT_VECTOR_STORE_STRATEGY, d \in BOOLEAN :
    Start(Constructed(k, t, emb, strategy, d)) /\ lookup = NoLookup

\* the variables of the chain manager proper
chainVars == <<modelKey, chainType, embeddingsAPI, indexVaultToVectorStore, db,
               chatModel, chain, retrievalChain, calls, retrievedDocuments>>

\* updateMemoryWithLoadedMessages(messages) is called, no earlier call being
\* under way, and suspends at `await clearChatMemory()`
UpdateMemoryWithLoadedMessages(messages) ==
  /\ load.pc \in {"none", "done"}
  /\ load' = [messages |-> messages, i |-> 1, pc |-> "clearChatMemory"]
  /\ UNCHANGED <<chainVars, memory, lookup, run, retrieval, laterLoad, context, notes, extract>>

ClearChatMemoryReturns ==
  /\ load.pc = "clearChatMemory"
  /\ memory' = clearChatMemory(memory)
  /\ load' = loopUntilAwait(load)
  /\ UNCHANGED <<chainVars, lookup, run, retrieval, laterLoad, context, notes, extract>>

SaveContextReturns ==
  /\ load.pc = "saveContext"
  /\ memory' = saveContext(memory, load.messages[load.i].message,
                           load.messages[load.i + 1].message)
  /\ load' = loopUntilAwait([load EXCEPT !.i = @ + 2])
  /\ UNCHANGED <<chainVars, lookup, run, retrieval, laterLoad, context, notes, extract>>

Next ==
  \/ \E k \in ModelKeys : ModelKeyChange(k)
  \/ \E f \in {"embeddings", "other"} : SettingsChange(f)
  \/ \E t \in StoredChainTypes : ChainTypeChange(t)
  \/ \E g \in BOOLEAN : RunChain(g)
  \/ \E c \in BagToSet(calls), ok \in BOOLEAN : InitializeDBReturns(c, ok)
  \/ \E c \in BagToSet(calls) : IndexVaultReturns(c)

Spec == Init /\ [][Next]_vars

\* storeRetrieverDocuments(documents): the callback of a retrieval pipeline's run
\* the cache accumulating the retrievals instead of holding the last one
storeRetrieverDocumentsAccumulating(s, documents) ==
  [s EXCEPT !.retrievedDocuments = @ \o documents]

\* ChainManager.storeRetrieverDocuments(documents)
storeRetrieverDocuments(s, documents) ==
  [s EXCEPT !.retrievedDocuments = documents]

\* the retrieval pipeline calls back with the documents of a query
StoreRetrieverDocuments(documents) ==
  /\ retrievalChain # NoChain
  /\ Apply(storeRetrieverDocuments(Cur, documents))

\* the memory that updateMemoryWithLoadedMessages leaves when run to its end
RECURSIVE replayed(_, _)
replayed(l, mem) ==
  IF l.pc = "done" THEN mem
  ELSE replayed(loopUntilAwait([l EXCEPT !.i = @ + 2]),
                saveContext(mem, l.messages[l.i].message, l.messages[l.i + 1].message))

Loaded(messages) ==
  replayed(loopUntilAwait([messages |-> messages, i |-> 1, pc |-> "clearChatMemory"]),
           clearChatMemory(<<>>))

\* Chain-type switches and turns over a memory that holds a loaded transcript
\* and a cache that retrievals fill.
StoreInit ==
  \E k \in {<<"gpt-4o", "openai">>, <<"gpt-4", "azure openai">>}, t \in StoredChainTypes,
     emb \in BOOLEAN, strategy \in VAULT_VECTOR_STORE_STRATEGY, d \in BOOLEAN,
     messages \in Transcripts :
    /\ Start([Constructed(k, t, emb, strategy, d) EXCEPT !.memory = Loaded(messages)])
    /\ lookup = NoLookup

StoreNext ==
  \/ \E t \in StoredChainTypes : ChainTypeChange(t)
  \/ \E g \in BOOLEAN : RunChain(g)
  \/ \E c \in BagToSet(calls), ok \in BOOLEAN : InitializeDBReturns(c, ok)
  \/ \E c \in BagToSet(calls) : IndexVaultReturns(c)
  \/ \E documents \in DocumentLists : StoreRetrieverDocuments(documents)

StoreSpec == StoreInit /\ [][StoreNext]_vars

\* The replay of transcripts into the memory, the chain manager standing still.
ReplayInit ==
  \E t \in StoredChainTypes :
    Start(Constructed(<<"gpt-4o", "openai">>, t, TRUE, NEVER, TRUE)) /\ lookup = NoLookup

ReplayNext ==
  \/ \E messages \in Transcripts : UpdateMemoryWithLoadedMessages(messages)
  \/ ClearChatMemoryReturns
  \/ SaveContextReturns

ReplaySpec == ReplayInit /\ [][ReplayNext]_vars

(* ------------------------------ claims -------------------------------- *)

\* what a caller can pass to setChain
ArgChainTypes == StoredChainTypes \cup {UNDEFINED}
Options == [refreshIndex : BOOLEAN, prompt : {NoPrompt, NoSystemPrompt, O1Prompt}]

\* the turn that runChain dispatches when called now
DispatchedTurn(ignoreSystemMessage) == runChain(Cur, ignoreSystemMessage).turn

\* the pipeline that the runner of the active chain type reads
ActivePipeline == RunnerPipeline(Cur, getChainRunner(chainType))

\* the model is valid, the active pipeline is not the one built for it
StaleAfterFailedRebuild(t) ==
  /\ chainType = t
  /\ chatModelManager_validateChatModel(chatModel)
  /\ ~embeddingsAPI
  /\ calls = EmptyBag
  /\ ActivePipeline # NoChain
  /\ ActivePipeline.llm # chatModel

\* C1: every turn that is dispatched reads a pipeline embedding the model handle
\* that the registry reports as active at that moment.
C1_DispatchedPipelineEmbedsActiveModel ==
  \A g \in BOOLEAN :
    LET tn == DispatchedTurn(g)
    IN tn.status = "running" /\ tn.pipeline # NoChain => tn.pipeline.llm = tn.chatModel

\* C2: whenever a task installs a pipeline (a setChain call completes), the
\* pipeline embeds the model that the registry reports as active at that moment.
C2_InstalledPipelineEmbedsActiveModel ==
  [][/\ getChain' # getChain => getChain'.llm = chatModel'
     /\ getRetrievalChain' # getRetrievalChain => getRetrievalChain'.llm = chatModel']_vars

\* C3: a mode switch is atomic: no step makes a supported mode the active chain
\* type while the pipeline that mode's runner reads is still absent (stated for
\* the switches whose rebuild can succeed: the embeddings API is present).
C3_ModeSwitchAtomic ==
  [][chainType' # chainType /\ chainType' \in SupportedChainTypes /\ embeddingsAPI'
       => ActivePipeline' # NoChain]_vars

C5_UnknownChainTypeFails ==
  chatModelManager_validateChatModel(chatModel) =>
    \A o \in Options :
      LET s == Task(setChain(Cur, UNKNOWN_CHAIN, o))
      IN /\ s.settled = {Settlement(UNKNOWN_CHAIN, "rejected", UnsupportedMsg, FALSE)}
         /\ s.chain = chain /\ s.retrievalChain = retrievalChain
         /\ s.chainType = chainType

\* C6: with a valid chat model, setChain(VAULT_QA) and setChain(COPILOT_PLUS)
\* reject with the embeddings error when the embeddings API is absent, and with
\* the database error when the index is absent and initializeDB yields none;
\* either way before a pipeline is replaced and with no reindex started.
C6_InitializationErrors ==
  /\ chatModelManager_validateChatModel(chatModel) /\ ~embeddingsAPI =>
       \A t \in {VAULT_QA_CHAIN, COPILOT_PLUS_CHAIN}, o \in Options :
         LET s == Task(setChain(Cur, t, o))
         IN /\ s.settled = {Settlement(t, "rejected", EmbeddingsMsg, FALSE)}
            /\ s.chain = chain /\ s.retrievalChain = retrievalChain
            /\ s.calls = calls
  /\ chatModelManager_validateChatModel(chatModel) /\ embeddingsAPI /\ ~db =>
       \A t \in {VAULT_QA_CHAIN, COPILOT_PLUS_CHAIN}, o \in Options :
         LET s == Task(setChain(Cur, t, o))
         IN /\ s.settled = {}
            /\ s.chain = chain /\ s.retrievalChain = retrievalChain
            /\ \E c \in BagToSet(s.calls) :
                 /\ c.pc = "initializeDB" /\ c.chainType = t
                 /\ s.calls = calls (+) SetToBag({c})
  /\ \A c \in BagToSet(calls) :
       c.pc = "initializeDB" =>
         LET s == Task(afterInitializeDB(Cur, c, FALSE))
         IN /\ s.settled = {Settlement(c.chainType, "rejected", DatabaseMsg, FALSE)}
            /\ s.chain = chain /\ s.retrievalChain = retrievalChain
            /\ s.calls = calls (-) SetToBag({c})

\* VAULT_QA mode: the rebuild for the active model failed for want of embeddings
\* and the retrieval pipeline of the earlier model is still returned
C6_Witness == StaleAfterFailedRebuild(VAULT_QA_CHAIN)

\* C7: an installed pipeline never becomes absent again, and a rebuild that
\* installs nothing leaves both pipelines and the chain type as they were.
C7_FailedRebuildChangesNothing ==
  /\ \A t \in ArgChainTypes, o \in Options :
       LET s == Task(setChain(Cur, t, o))
       IN (\A r \in s.settled : r.exit # "installed") =>
            /\ s.chain = chain /\ s.retrievalChain = retrievalChain
            /\ s.chainType = chainType
  /\ \A c \in BagToSet(calls) :
       c.pc = "initializeDB" =>
         LET s == Task(afterInitializeDB(Cur, c, FALSE))
         IN /\ s.chain = chain /\ s.retrievalChain = retrievalChain
            /\ s.chainType = chainType

C7_PipelinesStay ==
  /\ []C7_FailedRebuildChangesNothing
  /\ [][/\ getChain # NoChain => getChain' # NoChain
        /\ getRetrievalChain # NoChain => getRetrievalChain' # NoChain]_vars

\* COPILOT_PLUS mode: the rebuild for the active model failed and the plain
\* pipeline of the earlier model is still returned
C7_Witness == StaleAfterFailedRebuild(COPILOT_PLUS_CHAIN)

\* C8: createChainWithNewModel with a model key that matches no configured
\* model makes BUILTIN_CHAT_MODELS[0] the active model, whatever was active.
C8_DefaultModelOnUnknownKey ==
  /\ findCustomModel(modelKey) = NoCustomModel =>
       /\ chatModel.name = BUILTIN_CHAT_MODELS[1].name
       /\ chatModel.provider = BUILTIN_CHAT_MODELS[1].provider
  /\ \A k \in ModelKeys :
       findCustomModel(k) = NoCustomModel =>
         LET s == Task(createChainWithNewModel([Cur EXCEPT !.modelKey = k]))
         IN /\ s.chatModel.name = BUILTIN_CHAT_MODELS[1].name
            /\ s.chatModel.provider = BUILTIN_CHAT_MODELS[1].provider

\* the key names no model, the default is active, and a pipeline built for the
\* model that was active before is still there
C8_Witness ==
  /\ findCustomModel(modelKey) = NoCustomModel
  /\ chatModel.name = BUILTIN_CHAT_MODELS[1].name
  /\ retrievalChain # NoChain
  /\ retrievalChain.llm.name # BUILTIN_CHAT_MODELS[1].name

\* C9: no setChain promise that a trigger's handler starts ends rejected with
\* nobody to catch it.
C9_NoUnhandledRejection ==
  /\ \A k \in ModelKeys :
       \A r \in Task(createChainWithNewModel([Cur EXCEPT !.modelKey = k])).settled :
         r.status # "rejected"
  /\ \A t \in StoredChainTypes \ {chainType} :
       \A r \in Task(setChainType(Cur, t)).settled : r.status # "rejected"

\* C10: when runChain finds the plain pipeline missing or unsupported, the
\* pipeline that the dispatched runner reads exists and is of a supported shape
\* (stated for the rebuilds that can succeed: the embeddings API is present).
C10_RebuiltBeforeDispatch ==
  \A g \in BOOLEAN :
    LET tn == DispatchedTurn(g)
    IN /\ tn.status = "running"
       /\ chain = NoChain \/ ~isSupportedChain(chain)
       /\ embeddingsAPI
       => tn.pipeline # NoChain /\ isSupportedChain(tn.pipeline)

\* the message roles of a pipeline's prompt
PromptRoles(c) == { c.prompt[i] : i \in 1..Len(c.prompt) }

\* C11: for a turn whose model is an o1 model or whose options set
\* ignoreSystemMessage, the pipeline the dispatched runner uses was built with a
\* prompt that holds no system-role message, in every mode.  Stated in the
\* code's favour: the index is ready (the rebuild that runChain starts completes
\* within the task) and the pipeline is read only after the task's continuations.
C11_SystemFreePromptAtDispatch ==
  \A g \in BOOLEAN :
    LET s == Task(runChain(Cur, g))
        p == RunnerPipeline(s, s.turn.runner)
    IN /\ s.turn.status = "running"
       /\ g \/ startsWithO1(s.chatModel.name)
       /\ embeddingsAPI /\ db
       /\ p # NoChain
       => "system" \notin PromptRoles(p)

\* A model is looked up by key among configured models, the chain manager
\* standing still.
LookupCall(key, models) ==
  /\ lookup.pc \in {"none", "returned"}
  /\ lookup' = [NoLookup EXCEPT !.modelKey = key, !.activeModels = models, !.pc = "called"]
  /\ UNCHANGED <<chainVars, memory, load, run, retrieval, laterLoad, context, notes, extract>>

\* both lookups, ChainManager.findCustomModel and utils.findCustomModel, answer
LookupReturns ==
  /\ lookup.pc = "called"
  /\ lookup' = [lookup EXCEPT
                  !.found = findCustomModelIn(lookup.modelKey, lookup.activeModels),
                  !.result = utils_findCustomModel(lookup.modelKey, lookup.activeModels),
                  !.pc = "returned"]
  /\ UNCHANGED <<chainVars, memory, load, run, retrieval, laterLoad, context, notes, extract>>

LookupInit ==
  /\ Start(Constructed(<<"gpt-4o", "openai">>, LLM_CHAIN, TRUE, NEVER, TRUE))
  /\ lookup = NoLookup

LookupNext ==
  \/ \E key \in ModelKeys, models \in ModelLists : LookupCall(key, models)
  \/ LookupReturns

LookupSpec == LookupInit /\ [][LookupNext]_vars

\* the pairs the replay of a transcript is to leave: entries 1-2, 3-4, ... whose
\* first entry is the user's and whose second entry exists
ExpectedMemory(m) ==
  LET firsts == [j \in 1..(Len(m) \div 2) |-> 2 * j - 1]
      IsUsers(k) == m[k].sender = USER_SENDER
      kept == SelectSeq(firsts, IsUsers)
  IN [j \in 1..Len(kept) |-> [input |-> m[kept[j]].message,
                              output |-> m[kept[j] + 1].message]]

\* C12: updateMemoryWithLoadedMessages(m), run to completion with no other
\* writer, leaves in memory exactly the pairs (m[i] -> m[i+1]) for even i with
\* i+1 < length(m) and m[i] the user's, in transcript order, and nothing of
\* what was there before; [USER, AI] gives one pair, [USER] gives none.
C12_ReplayLeavesExactlyThePairs ==
  load.pc = "done" =>
    /\ memory = ExpectedMemory(load.messages)
    /\ (Len(load.messages) = 2 /\ load.messages[1].sender = USER_SENDER
          /\ load.messages[2].sender = AI_SENDER)
         => memory = <<[input |-> 1, output |-> 2]>>
    /\ Len(load.messages) = 1 => memory = <<>>

\* a replay of four entries has ended that wrote the second pair and skipped
\* the first
C12_Witness ==
  /\ load.pc = "done"
  /\ Len(load.messages) = 4
  /\ memory = <<[input |-> 3, output |-> 4]>>

\* C13: after updateMemoryWithLoadedMessages every pair in memory is a user
\* message followed by an AI message: pairs with a missing partner or a wrongly
\* attributed entry (first not the user's, second not the AI's) are skipped.
C13_OnlyUserAiPairs ==
  load.pc = "done" =>
    \A j \in 1..Len(memory) :
      /\ load.messages[memory[j].input].sender = USER_SENDER
      /\ load.messages[memory[j].output].sender = AI_SENDER

\* C14: setChain leaves the memory as it was, for every chain type and every
\* outcome: no setChain call, no return of its awaits and no step of a
\* chain-type switch changes the stored history.
C14_SetChainKeepsMemory ==
  /\ \A t \in ArgChainTypes, o \in Options : Task(setChain(Cur, t, o)).memory = memory
  /\ \A c \in BagToSet(calls) :
       /\ c.pc = "initializeDB" =>
            \A ok \in BOOLEAN : Task(afterInitializeDB(Cur, c, ok)).memory = memory
       /\ c.pc = "indexVault" => Task(afterIndexVault(Cur, c)).memory = memory

C14_MemoryIsModeAgnostic ==
  /\ []C14_SetChainKeepsMemory
  /\ [][memory' = memory]_vars

\* both pipelines have been built by switches, over a memory that holds pairs
C14_Witness ==
  /\ memory # <<>>
  /\ chain # NoChain
  /\ retrievalChain # NoChain
  /\ calls = EmptyBag

\* C17: a successful setChain(LLM_CHAIN) replaces only the plain pipeline: the
\* retrieval pipeline, the cached documents and the index stay as they were,
\* no index work is started, and the outcome does not depend on the embeddings
\* API or the index (neither is consulted).
C17_PlainChatBuildsOnlyPlainPipeline ==
  chatModelManager_validateChatModel(chatModel) =>
    \A o \in Options :
      LET s == Task(setChain(Cur, LLM_CHAIN, o))
      IN /\ \E r \in s.settled : r.chainType = LLM_CHAIN /\ r.exit = "installed"
         /\ \A r \in s.settled : r.status = "fulfilled"
         /\ isLLMChain(s.chain) /\ s.chain.llm = chatModel
         /\ s.retrievalChain = retrievalChain
         /\ s.retrievedDocuments = retrievedDocuments
         /\ s.db = db
         /\ s.calls = calls
         /\ \A e \in BOOLEAN, d \in BOOLEAN :
              LET u == Task(setChain([Cur EXCEPT !.embeddingsAPI = e, !.db = d], LLM_CHAIN, o))
              IN u.chain = s.chain /\ u.settled = s.settled

\* plain chat is active with its pipeline, and the retrieval pipeline and the
\* documents of an earlier retrieval are still there
C17_Witness ==
  /\ chainType = LLM_CHAIN
  /\ chain # NoChain
  /\ retrievalChain # NoChain
  /\ retrievedDocuments # <<>>

\* C15: runChain called while the chat model does not validate shows a notice,
\* raises an error and aborts with the prior state kept: no setChain call is
\* made, no pipeline is rebuilt, the chain type is unchanged, no runner is
\* created or run.
C15_RunChainAbortsWithoutModel ==
  ~chatModelManager_validateChatModel(chatModel) =>
    \A g \in BOOLEAN :
      LET s == Task(runChain(Cur, g))
      IN /\ s.notices = {NoChatModelMsg}
         /\ s.turn.status = "rejected" /\ s.turn.error = NoChatModelMsg
         /\ s.turn.runner = "" /\ s.turn.pipeline = NoChain
         /\ s.settled = {} /\ s.calls = calls
         /\ s.chain = chain /\ s.retrievalChain = retrievalChain
         /\ s.chainType = chainType /\ s.chatModel = chatModel

\* vault QA with a retrieval pipeline of an earlier model, the active model
\* being one that does not validate
C15_Witness ==
  /\ ~chatModelManager_validateChatModel(chatModel)
  /\ chainType = VAULT_QA_CHAIN
  /\ retrievalChain # NoChain

\* C16: runChain dispatches a turn to exactly one runner, the one of the chain
\* type active at dispatch; for any other chain type value it raises the
\* unsupported-chain-type error and runs no runner.
C16_RunnerMatchesChainType ==
  chatModelManager_validateChatModel(chatModel) =>
    \A g \in BOOLEAN :
      LET s == runChain(Cur, g)
          tn == s.turn
      IN /\ s.chainType = chainType
         /\ chainType = LLM_CHAIN =>
              tn.status = "running" /\ tn.runner = "LLMChainRunner"
         /\ chainType = VAULT_QA_CHAIN =>
              tn.status = "running" /\ tn.runner = "VaultQAChainRunner"
         /\ chainType = COPILOT_PLUS_CHAIN =>
              tn.status = "running" /\ tn.runner = "CopilotPlusChainRunner"
         /\ chainType \notin SupportedChainTypes =>
              /\ tn.status = "rejected" /\ tn.error = UnsupportedMsg
              /\ tn.runner = "" /\ tn.pipeline = NoChain

\* the settings hold a chain type that is none of the three, the model is
\* valid and a plain pipeline exists
C16_Witness ==
  /\ chatModelManager_validateChatModel(chatModel)
  /\ chainType = UNKNOWN_CHAIN
  /\ chain # NoChain

\* a setChain call has just installed a pipeline for the chain type t
Installed(s, t) == \E r \in s.settled : r.chainType = t /\ r.exit = "installed"

\* C18: a setChain(COPILOT_PLUS) that succeeds goes through the index-readiness
\* step first: when it completes the index is present, a requested reindex has
\* been awaited, and getChain returns a plain pipeline built by the call; as
\* long as readiness has not succeeded the plain pipeline is not replaced.
C18_PlusInstallsAfterIndexReadiness ==
  /\ chatModelManager_validateChatModel(chatModel) =>
       \A o \in Options :
         LET s == Task(setChain(Cur, COPILOT_PLUS_CHAIN, o))
         IN IF Installed(s, COPILOT_PLUS_CHAIN)
            THEN /\ embeddingsAPI /\ db /\ s.db /\ ~o.refreshIndex
                 /\ isLLMChain(s.chain) /\ s.chain.llm = chatModel
            ELSE s.chain = chain
  /\ \A c \in BagToSet(calls) :
       c.chainType = COPILOT_PLUS_CHAIN =>
         /\ c.pc = "initializeDB" =>
              /\ LET s == Task(afterInitializeDB(Cur, c, TRUE))
                 IN IF c.refreshIndex
                    THEN /\ s.chain = chain /\ s.settled = {}
                         /\ [c EXCEPT !.pc = "indexVault"] \in BagToSet(s.calls)
                    ELSE /\ Installed(s, COPILOT_PLUS_CHAIN) /\ s.db
                         /\ isLLMChain(s.chain) /\ s.chain.llm \in {c.chatModel, chatModel}
              /\ LET s == Task(afterInitializeDB(Cur, c, FALSE))
                 IN s.chain = chain /\ ~Installed(s, COPILOT_PLUS_CHAIN)
         /\ c.pc = "indexVault" =>
              /\ c.refreshIndex /\ db
              /\ LET s == Task(afterIndexVault(Cur, c))
                 IN /\ Installed(s, COPILOT_PLUS_CHAIN) /\ s.db
                    /\ isLLMChain(s.chain) /\ s.chain.llm \in {c.chatModel, chatModel}

\* the plus mode is active after a switch from vault QA that reindexed: its
\* plain pipeline embeds the active model and the index is present
C18_Witness ==
  /\ chainType = COPILOT_PLUS_CHAIN
  /\ indexVaultToVectorStore = ON_MODE_SWITCH
  /\ retrievalChain # NoChain
  /\ chain # NoChain /\ chain.llm = chatModel
  /\ db /\ embeddingsAPI
  /\ calls = EmptyBag

\* the I/O calls that the task ending in s has started
StartedCalls(s) == BagToSet(s.calls (-) calls)

\* C19: the index-readiness step calls initializeDB if and only if the
\* embeddings API is present and getDb returns no index, and
\* indexVaultToVectorStore if and only if options.refreshIndex is set and an
\* index was obtained; each at most once per setChain call, and the reindex
\* has returned before a pipeline is replaced.
C19_LazyIndexAndReindexOnRequest ==
  /\ chatModelManager_validateChatModel(chatModel) =>
       \A t \in {VAULT_QA_CHAIN, COPILOT_PLUS_CHAIN}, o \in Options :
         \* the call itself, up to its first await
         LET s == setChain(Cur, t, o)
         IN /\ (\E c \in StartedCalls(s) : c.pc = "initializeDB") <=> embeddingsAPI /\ ~db
            /\ (\E c \in StartedCalls(s) : c.pc = "indexVault")
                 <=> embeddingsAPI /\ db /\ o.refreshIndex
            /\ StartedCalls(s) # {} =>
                 /\ s.calls = calls (+) SetToBag(StartedCalls(s))
                 /\ Cardinality(StartedCalls(s)) = 1
                 /\ s.chain = chain /\ s.retrievalChain = retrievalChain
  /\ \A c \in BagToSet(calls) :
       /\ c.pc = "initializeDB" =>
            /\ LET s == Task(afterInitializeDB(Cur, c, TRUE))
               IN /\ \A d \in StartedCalls(s) : d.pc # "initializeDB"
                  /\ CopiesIn(c, s.calls) = CopiesIn(c, calls) - 1
                  /\ IF c.refreshIndex
                     THEN /\ s.calls = (calls (-) SetToBag({c}))
                                          (+) SetToBag({[c EXCEPT !.pc = "indexVault"]})
                          /\ s.chain = chain /\ s.retrievalChain = retrievalChain
                     ELSE Installed(s, c.chainType)
            /\ LET s == Task(afterInitializeDB(Cur, c, FALSE))
               IN s.calls = calls (-) SetToBag({c})
       /\ c.pc = "indexVault" =>
            /\ c.refreshIndex /\ db
            /\ Installed(Task(afterIndexVault(Cur, c)), c.chainType)

\* a reindex requested by a switch to vault QA is under way and the retrieval
\* pipeline has not been built yet
C19_Witness ==
  /\ retrievalChain = NoChain
  /\ \E c \in BagToSet(calls) :
       c.pc = "indexVault" /\ c.chainType = VAULT_QA_CHAIN /\ c.refreshIndex

\* the entries of the searched list that carry the looked-up (name, provider)
Matches(l) ==
  { i \in 1..Len(l.activeModels) :
      /\ Len(l.modelKey) = 2
      /\ l.activeModels[i].name = l.modelKey[1]
      /\ l.activeModels[i].provider = l.modelKey[2] }

\* C20: a lookup by (name, provider) fails loudly when the key is not unique:
\* with two or more configured entries of the looked-up (name, provider) it
\* reports an error and returns none of them.
\* (Stated for entries that differ beyond the key, where picking one matters.)
C20_DuplicateKeyFailsLoudly ==
  /\ lookup.pc = "returned"
  /\ \E i \in Matches(lookup), j \in Matches(lookup) :
       lookup.activeModels[i] # lookup.activeModels[j]
  => /\ lookup.result.error # ""
     /\ lookup.found = NoCustomModel

\* C21: the cache of retrieved documents always holds the document sequence of
\* the most recent retrieval callback: a step changes the cache only when it is
\* storeRetrieverDocuments(d), which leaves exactly d (same order, nothing of
\* earlier retrievals kept) and changes nothing else; rebuilds, turns and
\* index completions never write it.
C21_CacheHoldsLastRetrieval ==
  [][\/ retrievedDocuments' = retrievedDocuments
     \/ \E d \in DocumentLists :
          /\ StoreRetrieverDocuments(d)
          /\ retrievedDocuments' = d
          /\ UNCHANGED <<modelKey, chainType, embeddingsAPI, indexVaultToVectorStore,
                         db, chatModel, chain, retrievalChain, calls, memory>>]_vars

\* a retrieval of two documents has replaced the cache while vault QA is active
C21_Witness ==
  /\ chainType = VAULT_QA_CHAIN
  /\ retrievalChain # NoChain
  /\ retrievedDocuments = <<"note2.md", "note1.md">>

(* --------------------------- the runner's turn ------------------------- *)

\* The most partial outputs a turn streams.
MaxTokens == 2

\* the handle of the caller of runChain
CallerHandle == "abortController"

\* the handle the runner is given, the caller's being dropped
runHandleDropped(abortController) == ""

\* chainRunner.run(userMessage, abortController, ...): the handle runChain
\* passes on is the one it was called with
runHandle(abortController) == abortController

\* the runner has seen its handle triggered
Cancelled(r) == r.aborted /\ r.abortController = CallerHandle

\* runChain(userMessage, abortController, updateCurrentAiMessage, addMessage,
\* options) up to the await of chainRunner.run
RunTurn(ignoreSystemMessage) ==
  /\ run.pc \in {"none", "ended"}
  /\ Len(memory) < MaxMessages
  /\ LET s == Task(runChain(Cur, ignoreSystemMessage))
     IN /\ s.turn.status = "running"
        /\ BagCardinality(s.calls) <= MaxPending
        /\ Assign(s)
        /\ run' = [NoRun EXCEPT !.pc = "streaming",
                                !.abortController = runHandle(CallerHandle),
                                !.memoryAtCall = memory]
  /\ UNCHANGED <<load, lookup, retrieval, laterLoad, context, notes, extract>>

\* the caller triggers its handle
Abort ==
  /\ run.pc = "streaming"
  /\ ~run.aborted
  /\ run' = [run EXCEPT !.aborted = TRUE, !.updatesAtAbort = run.updateCurrentAiMessage]
  /\ UNCHANGED <<chainVars, memory, load, lookup, retrieval, laterLoad, context, notes, extract>>

\* a token arrives: the runner calls updateCurrentAiMessage
PartialOutput ==
  /\ run.pc = "streaming"
  /\ ~Cancelled(run)
  /\ run.updateCurrentAiMessage < MaxTokens
  /\ run' = [run EXCEPT !.updateCurrentAiMessage = @ + 1]
  /\ UNCHANGED <<chainVars, memory, load, lookup, retrieval, laterLoad, context, notes, extract>>

\* the stream ends: the runner saves the exchange and calls addMessage
RunCompletes ==
  /\ run.pc = "streaming"
  /\ ~Cancelled(run)
  /\ memory' = saveContext(memory, "question", "answer")
  /\ run' = [run EXCEPT !.pc = "ended", !.addMessage = @ + 1]
  /\ UNCHANGED <<chainVars, load, lookup, retrieval, laterLoad, context, notes, extract>>

\* the runner's awaited call is aborted: the run ends with nothing committed
RunCancelled ==
  /\ run.pc = "streaming"
  /\ Cancelled(run)
  /\ run' = [run EXCEPT !.pc = "ended"]
  /\ UNCHANGED <<chainVars, memory, load, lookup, retrieval, laterLoad, context, notes, extract>>

\* Turns over a loaded memory.  No reindex is ever pending here: runChain's
\* rebuilds do not ask for one.
RunnerInit ==
  \E t \in StoredChainTypes, d \in BOOLEAN, messages \in Transcripts :
    Start([Constructed(<<"gpt-4o", "openai">>, t, TRUE, NEVER, d)
             EXCEPT !.memory = Loaded(messages)])

RunnerNext ==
  \/ \E g \in BOOLEAN : RunTurn(g)
  \/ Abort
  \/ PartialOutput
  \/ RunCompletes
  \/ RunCancelled
  \/ \E c \in BagToSet(calls), ok \in BOOLEAN : InitializeDBReturns(c, ok)

RunnerSpec == RunnerInit /\ [][RunnerNext]_vars

\* C22: when the handle passed to runChain is triggered before any streamed
\* token has arrived, then once the call has ended the memory is what it was
\* when the call was made (no turn committed), no partial-output callback has
\* fired and the final-message callback has not been invoked.
C22_CancelledBeforeFirstTokenCommitsNothing ==
  /\ run.pc = "ended"
  /\ run.aborted
  /\ run.updatesAtAbort = 0
  => /\ memory = run.memoryAtCall
     /\ run.updateCurrentAiMessage = 0
     /\ run.addMessage = 0

\* a turn over a loaded memory was cancelled before its first token and ended
C22_Witness ==
  /\ run.pc = "ended"
  /\ run.aborted
  /\ run.updatesAtAbort = 0
  /\ memory # <<>>

(* -------------------------- the hybrid retriever ----------------------- *)

\* The most candidate documents a query has.
MaxCandidates == 5
\* The largest value of the setting maxSourceChunks.
MaxK == 3

\* similarity scores in hundredths, and the boost of the auxiliary signal
Scores == 0..4
Boosts == 0..1

\* the candidates of a query in the order of the vector search (best first),
\* each with its rank, its similarity and what the auxiliary signal adds
CandidateLists ==
  UNION { { [i \in 1..n |-> [rank |-> i, score |-> f[i], boost |-> b[i]]] :
              f \in {g \in [1..n -> Scores] : \A i \in 1..(n - 1) : g[i] >= g[i + 1]},
              b \in [1..n -> Boosts] } : n \in 0..MaxCandidates }

\* the retriever's options with one document more than the setting allows
retrieverOptionsOneMore(maxSourceChunks) ==
  [minSimilarityScore |-> 1, maxK |-> maxSourceChunks + 1, salientTerms |-> <<>>]

\* the options setChain constructs the HybridRetriever with
\* (minSimilarityScore 0.01, in hundredths)
retrieverOptions(maxSourceChunks) ==
  [minSimilarityScore |-> 1, maxK |-> maxSourceChunks, salientTerms |-> <<>>]

combined(c) == c.score + c.boost

\* c put into a ranked list behind every document that scores at least as much
RECURSIVE insertRanked(_, _)
insertRanked(l, c) ==
  IF l = <<>> THEN <<c>>
  ELSE IF combined(Head(l)) >= combined(c)
       THEN <<Head(l)>> \o insertRanked(Tail(l), c)
       ELSE <<c>> \o l

RECURSIVE rankDocuments(_)
rankDocuments(cs) ==
  IF cs = <<>> THEN <<>>
  ELSE insertRanked(rankDocuments(SubSeq(cs, 1, Len(cs) - 1)), cs[Len(cs)])

\* HybridRetriever.getRelevantDocuments(query): the candidates above the
\* least similarity, ranked by combined score, cut at maxK
getRelevantDocuments(options, candidates) ==
  LET similar(c) == c.score >= options.minSimilarityScore
      ranked == rankDocuments(SelectSeq(candidates, similar))
  IN SubSeq(ranked, 1, IF Len(ranked) < options.maxK THEN Len(ranked) ELSE options.maxK)

GetRelevantDocuments(maxSourceChunks, candidates) ==
  /\ retrieval.pc = "none"
  /\ retrieval' = [NoRetrieval EXCEPT !.pc = "called", !.maxSourceChunks = maxSourceChunks,
                                      !.candidates = candidates]
  /\ UNCHANGED <<chainVars, memory, load, lookup, run, laterLoad, context, notes, extract>>

RetrieverReturns ==
  /\ retrieval.pc = "called"
  /\ retrieval' = [retrieval EXCEPT
       !.documents = getRelevantDocuments(retrieverOptions(retrieval.maxSourceChunks),
                                          retrieval.candidates),
       !.pc = "returned"]
  /\ UNCHANGED <<chainVars, memory, load, lookup, run, laterLoad, context, notes, extract>>

\* Queries to the retriever of the vault QA pipeline.
RetrieverInit ==
  Start(Constructed(<<"gpt-4o", "openai">>, VAULT_QA_CHAIN, TRUE, NEVER, TRUE))

RetrieverNext ==
  \/ /\ retrieval.pc = "none"
     /\ \E k \in 1..MaxK, candidates \in CandidateLists : GetRelevantDocuments(k, candidates)
  \/ RetrieverReturns

RetrieverSpec == RetrieverInit /\ [][RetrieverNext]_vars

\* a ranks before b: by combined score, ties by the rank of the vector search
RanksBefore(a, b) ==
  \/ combined(a) > combined(b)
  \/ combined(a) = combined(b) /\ a.rank < b.rank

\* C23: the hybrid retriever returns at most maxK documents (maxK being the
\* setting maxSourceChunks), all of them candidates, in descending order of
\* combined score with ties in the order of the vector search, and the ones it
\* leaves out rank behind every one it returns (so five candidates of distinct
\* scores with maxK = 3 give exactly the three best); when the auxiliary
\* signal adds nothing it still returns, in the order of the vector search.
C23_AtMostMaxKRanked ==
  retrieval.pc = "returned" =>
    LET r == retrieval.documents
        c == retrieval.candidates
        k == retrieval.maxSourceChunks
        similar == {n \in DOMAIN c :
                      c[n].score >= retrieverOptions(k).minSimilarityScore}
        isSimilar(d) == d.rank \in similar
    IN /\ Len(r) <= k
       /\ Len(r) = IF Cardinality(similar) < k THEN Cardinality(similar) ELSE k
       /\ \A i \in DOMAIN r : \E n \in similar : r[i] = c[n]
       /\ \A i \in DOMAIN r, j \in DOMAIN r : i < j => RanksBefore(r[i], r[j])
       /\ \A n \in similar :
            (\A i \in DOMAIN r : r[i] # c[n]) =>
              \A i \in DOMAIN r : RanksBefore(r[i], c[n])
       /\ (\A n \in DOMAIN c : c[n].boost = 0) =>
            r = SubSeq(SelectSeq(c, isSimilar), 1, Len(r))

\* five candidates of distinct combined scores, maxK = 3: three are returned,
\* and the auxiliary signal has put the second of the vector search first
C23_Witness ==
  /\ retrieval.pc = "returned"
  /\ retrieval.maxSourceChunks = 3
  /\ Len(retrieval.candidates) = 5
  /\ \A i \in 1..5, j \in 1..5 :
       i # j => combined(retrieval.candidates[i]) # combined(retrieval.candidates[j])
  /\ Len(retrieval.documents) = 3
  /\ retrieval.documents[1].rank = 2

(* ------------------------ overlapping rebuilds ------------------------- *)

\* C24: with setChain calls overlapping, the most recently requested mode
\* wins: the chain type changes only by an external request, to the type
\* requested, and the late completion of an earlier call never sets it back.
C24_LastRequestedModeWins ==
  [][chainType' # chainType =>
       \E t \in StoredChainTypes : ChainTypeChange(t) /\ chainType' = t]_vars

\* an await on the index returns to a suspended setChain call
Completion ==
  \/ \E c \in BagToSet(calls), ok \in BOOLEAN : InitializeDBReturns(c, ok)
  \/ \E c \in BagToSet(calls) : IndexVaultReturns(c)

\* Chain-type switches and the completions of the calls they start, every
\* await returning in the end.
LoopNext ==
  \/ \E t \in StoredChainTypes : ChainTypeChange(t)
  \/ \E c \in BagToSet(calls), ok \in BOOLEAN : InitializeDBReturns(c, ok)
  \/ \E c \in BagToSet(calls) : IndexVaultReturns(c)

LoopSpec == Init /\ [][LoopNext]_vars /\ WF_vars(Completion)

\* C25: the chain-type feedback loop quiesces: unless external chain-type
\* changes go on for ever, from some time on no setChain call is pending and
\* none is started any more, also when two calls for different modes were
\* pending at the same time.
C25_FeedbackLoopQuiesces ==
  \/ []<><<\E t \in StoredChainTypes : ChainTypeChange(t)>>_vars
  \/ <>[](calls = EmptyBag)

(* ------------------------ turns after turns ---------------------------- *)

\* the state a task leaves, as the next task finds it
AfterTask(s) == [s EXCEPT !.micro = <<>>, !.settled = {}, !.notices = {}, !.turn = NoTurn]

\* C26: suppressing the system message is scoped to the turn that asked for
\* it: after a runChain with ignoreSystemMessage set (the model not an o1
\* model), a following runChain in the same mode without it, nothing changed in
\* between, dispatches a pipeline whose prompt holds the system message again.
C26_IgnoreSystemMessageScopedToTurn ==
  LET first == Task(runChain(Cur, TRUE))
      second == runChain(AfterTask(first), FALSE)
  IN /\ first.turn.status = "running"
     /\ ~startsWithO1(first.chatModel.name)
     /\ first.chainType = chainType
     /\ first.calls = EmptyBag
     /\ second.turn.status = "running"
     /\ second.turn.pipeline # NoChain
     => "system" \in PromptRoles(second.turn.pipeline)

\* C27: once a setChain for the current mode has completed successfully and
\* nothing has changed since (the active pipeline is there, built for the
\* current model, no call pending, the index ready where the mode needs it),
\* the validation in runChain starts no rebuild; also in vault QA mode when
\* only the retrieval pipeline has been built.
C27_ValidationStartsNoRebuild ==
  /\ chatModelManager_validateChatModel(chatModel)
  /\ calls = EmptyBag
  /\ ActivePipeline # NoChain
  /\ ActivePipeline.llm = chatModel
  /\ chainType # LLM_CHAIN => embeddingsAPI /\ db
  => validateChainInitialization(Cur) = Cur

(* ------------------------- overlapping replays ------------------------- *)

\* updateMemoryWithLoadedMessages(messages) is called while an earlier call is
\* suspended at one of its awaits
LaterUpdateMemoryWithLoadedMessages(messages) ==
  /\ load.pc \in {"clearChatMemory", "saveContext"}
  /\ laterLoad.pc = "none"
  /\ laterLoad' = [messages |-> messages, i |-> 1, pc |-> "clearChatMemory"]
  /\ UNCHANGED <<chainVars, memory, load, lookup, run, retrieval, context, notes, extract>>

\* clearChatMemory() returns to the later call
LaterClearChatMemoryReturns ==
  /\ laterLoad.pc = "clearChatMemory"
  /\ memory' = clearChatMemory(memory)
  /\ laterLoad' = loopUntilAwait(laterLoad)
  /\ UNCHANGED <<chainVars, load, lookup, run, retrieval, context, notes, extract>>

\* saveContext() returns to the later call
LaterSaveContextReturns ==
  /\ laterLoad.pc = "saveContext"
  /\ memory' = saveContext(memory, laterLoad.messages[laterLoad.i].message,
                           laterLoad.messages[laterLoad.i + 1].message)
  /\ laterLoad' = loopUntilAwait([laterLoad EXCEPT !.i = @ + 2])
  /\ UNCHANGED <<chainVars, load, lookup, run, retrieval, context, notes, extract>>

\* Two replays, the second called while the first is suspended.
OverlapNext ==
  \/ /\ load.pc = "none"
     /\ \E messages \in Transcripts : UpdateMemoryWithLoadedMessages(messages)
  \/ ClearChatMemoryReturns
  \/ SaveContextReturns
  \/ \E messages \in Transcripts : LaterUpdateMemoryWithLoadedMessages(messages)
  \/ LaterClearChatMemoryReturns
  \/ LaterSaveContextReturns

OverlapSpec == ReplayInit /\ [][OverlapNext]_vars

\* C28: two overlapping calls of updateMemoryWithLoadedMessages never leave
\* the memory a mixture: after both have finished the memory is the replay of
\* the later call's transcript, no pair of the other in between or behind.
C28_LaterReplayWins ==
  load.pc = "done" /\ laterLoad.pc = "done" =>
    memory = ExpectedMemory(laterLoad.messages)

(* --------------------------- who asks to reindex ----------------------- *)

\* the setChain calls that the code ending in s has started and that have
\* reached initializeQAChain, each with its options
Requests(s) == { s.micro[i] : i \in DOMAIN s.micro } \cup StartedCalls(s)

\* C29: a rebuild that a chain-type change triggers asks for a full reindex
\* if and only if the strategy is ON_MODE_SWITCH and the new chain type is
\* vault QA or Copilot Plus (the change being an external one or the write-back
\* of a completing call); the rebuilds that a model-key change, a settings
\* change, the construction or runChain trigger never ask for one.
C29_ReindexOnlyOnModeSwitch ==
  /\ \A t \in StoredChainTypes \ {chainType} :
       LET s == setChainType(Cur, t)
       IN /\ \A c \in Requests(s) :
               /\ c.chainType = t
               /\ c.refreshIndex <=> indexVaultToVectorStore = ON_MODE_SWITCH
          /\ t \notin {VAULT_QA_CHAIN, COPILOT_PLUS_CHAIN} => Requests(s) = {}
          /\ chatModelManager_validateChatModel(chatModel)
               /\ t \in {VAULT_QA_CHAIN, COPILOT_PLUS_CHAIN}
               => Requests(s) # {}
  /\ \A c \in BagToSet(calls) :
       ~c.refreshIndex /\ c.pc = "initializeDB" =>
         LET s == afterInitializeDB(Cur, c, TRUE)
         IN \A d \in Requests(s) :
              /\ c.chainType # chainType
              /\ d.chainType = c.chainType
              /\ d.refreshIndex <=> indexVaultToVectorStore = ON_MODE_SWITCH
  /\ \A k \in ModelKeys, e \in BOOLEAN :
       \A c \in Requests(createChainWithNewModel(
                              [Cur EXCEPT !.modelKey = k, !.embeddingsAPI = e])) :
         ~c.refreshIndex
  /\ \A g \in BOOLEAN : \A c \in Requests(runChain(Cur, g)) : ~c.refreshIndex

\* under ON_MODE_SWITCH a switch to Copilot Plus has asked for the reindex,
\* which is under way
C29_Witness ==
  /\ indexVaultToVectorStore = ON_MODE_SWITCH
  /\ chainType = COPILOT_PLUS_CHAIN
  /\ \E c \in BagToSet(calls) :
       c.pc = "indexVault" /\ c.chainType = COPILOT_PLUS_CHAIN /\ c.refreshIndex

(* ---------------------------- getChatContext --------------------------- *)

\* The largest context size asked for.
MaxContextSize == 5

\* Array.prototype.reverse
reverse(a) == [i \in 1..Len(a) |-> a[Len(a) + 1 - i]]

\* Array.prototype.findIndex with the test of getChatContext: the index, from
\* 0, of the first entry not sent by the user, -1 when there is none
RECURSIVE findIndexFrom(_, _)
findIndexFrom(a, i) ==
  IF i >= Len(a) THEN -1
  ELSE IF a[i + 1].sender # USER_SENDER THEN i
  ELSE findIndexFrom(a, i + 1)

findIndex(a) == findIndexFrom(a, 0)

\* Array.prototype.slice(start, end) for start and end that are not negative
slice(a, start, end) ==
  LET to == IF end > Len(a) THEN Len(a) ELSE end
  IN IF start >= to THEN <<>> ELSE SubSeq(a, start + 1, to)

\* getChatContext slicing up to the end of the history
getChatContextToEnd(chatHistory, contextSize) ==
  IF Len(chatHistory) = 0 THEN <<>>
  ELSE LET lastAiMessageIndex == findIndex(reverse(chatHistory))
           lastIndex == Len(chatHistory) - 1 - lastAiMessageIndex
           startIndex == IF lastIndex - contextSize + 1 > 0
                         THEN lastIndex - contextSize + 1 ELSE 0
       IN IF lastAiMessageIndex = -1 THEN <<>>
          ELSE slice(chatHistory, startIndex, Len(chatHistory))

getChatContext(chatHistory, contextSize) ==
  IF Len(chatHistory) = 0 THEN <<>>
  ELSE LET lastAiMessageIndex == findIndex(reverse(chatHistory))
           lastIndex == Len(chatHistory) - 1 - lastAiMessageIndex
           startIndex == IF lastIndex - contextSize + 1 > 0
                         THEN lastIndex - contextSize + 1 ELSE 0
       IN IF lastAiMessageIndex = -1 THEN <<>>
          ELSE slice(chatHistory, startIndex, lastIndex + 1)

GetChatContext(chatHistory, contextSize) ==
  /\ context.pc = "none"
  /\ context' = [NoContext EXCEPT !.pc = "called", !.chatHistory = chatHistory,
                                  !.contextSize = contextSize]
  /\ UNCHANGED <<chainVars, memory, load, lookup, run, retrieval, laterLoad, notes, extract>>

GetChatContextReturns ==
  /\ context.pc = "called"
  /\ context' = [context EXCEPT
                   !.result = getChatContext(context.chatHistory, context.contextSize),
                   !.pc = "returned"]
  /\ UNCHANGED <<chainVars, memory, load, lookup, run, retrieval, laterLoad, notes, extract>>

\* The context of a chat history is asked for, the chain manager standing still.
ContextInit ==
  Start(Constructed(<<"gpt-4o", "openai">>, LLM_CHAIN, TRUE, NEVER, TRUE))

ContextNext ==
  \/ \E chatHistory \in Transcripts, contextSize \in 0..MaxContextSize :
       GetChatContext(chatHistory, contextSize)
  \/ GetChatContextReturns

ContextSpec == ContextInit /\ [][ContextNext]_vars

\* C30: getChatContext(history, n) returns the contiguous run of the history
\* that ends at the newest message not sent by the user and has length
\* min(n, index of that message + 1): in the order of the history, nothing
\* after that message, and empty when the history is empty or holds no such
\* message.
C30_ContextEndsAtNewestAiMessage ==
  context.pc = "returned" =>
    LET h == context.chatHistory
        n == context.contextSize
        r == context.result
        notUser == {i \in DOMAIN h : h[i].sender # USER_SENDER}
    IN IF notUser = {} THEN r = <<>>
       ELSE LET newest == CHOOSE i \in notUser : \A j \in notUser : j <= i
            IN /\ Len(r) = IF n < newest THEN n ELSE newest
               /\ \A j \in 1..Len(r) : r[j] = h[newest - Len(r) + j]

\* of a history of four that ends with a user message, a context of two is
\* the second and the third message, the third being the AI's
C30_Witness ==
  /\ context.pc = "returned"
  /\ Len(context.chatHistory) = 4
  /\ context.chatHistory[4].sender = USER_SENDER
  /\ context.chatHistory[3].sender = AI_SENDER
  /\ context.contextSize = 2
  /\ context.result = SubSeq(context.chatHistory, 2, 3)

(* --------------------------- getNotesFromPath -------------------------- *)

\* The longest path, in characters.
MaxPathLen == 3
\* The most markdown files the vault holds.
MaxFiles == 1

\* paths are strings over a small alphabet, written as sequences of characters
PathChars == {"a", "A", "b", "/"}
Paths == UNION { [1..n -> PathChars] : n \in 0..MaxPathLen }
\* the paths of files in a vault: names between slashes, none of them empty
FilePaths ==
  { f \in Paths : /\ f # <<>>
                  /\ f[1] # "/" /\ f[Len(f)] # "/"
                  /\ \A i \in 1..(Len(f) - 1) : ~(f[i] = "/" /\ f[i + 1] = "/") }
Vaults == UNION { [1..n -> FilePaths] : n \in 0..MaxFiles }

\* String.prototype.toLowerCase
toLowerCase(str) == [i \in 1..Len(str) |-> IF str[i] = "A" THEN "a" ELSE str[i]]

\* str.replace(/^\/|\/$/g, ""): one leading and one trailing slash go
stripSlashes(str) ==
  LET led == IF str # <<>> /\ Head(str) = "/" THEN Tail(str) ELSE str
  IN IF led # <<>> /\ led[Len(led)] = "/" THEN SubSeq(led, 1, Len(led) - 1) ELSE led

\* str.split("/"): the segments between the slashes, empty ones kept
RECURSIVE split(_)
split(str) ==
  IF \A i \in 1..Len(str) : str[i] # "/" THEN <<str>>
  ELSE LET k == CHOOSE i \in 1..Len(str) :
                  str[i] = "/" /\ \A j \in 1..(i - 1) : str[j] # "/"
       IN <<SubSeq(str, 1, k - 1)>> \o split(SubSeq(str, k + 1, Len(str)))

\* the while loop of the filter: the first index from filePathIndex (from 0)
\* whose part is pathPart, or the number of parts when there is none
RECURSIVE whileNoMatch(_, _, _)
whileNoMatch(filePathParts, pathPart, filePathIndex) ==
  IF filePathIndex < Len(filePathParts) /\ filePathParts[filePathIndex + 1] # pathPart
  THEN whileNoMatch(filePathParts, pathPart, filePathIndex + 1)
  ELSE filePathIndex

\* the for loop of the filter over the path parts from the k-th on
RECURSIVE containsParts(_, _, _, _)
containsParts(filePathParts, pathParts, k, filePathIndex) ==
  IF k > Len(pathParts) THEN TRUE
  ELSE LET index == whileNoMatch(filePathParts, pathParts[k], filePathIndex)
       IN IF index >= Len(filePathParts) THEN FALSE
          ELSE containsParts(filePathParts, pathParts, k + 1, index)

getNotesFromPath(files, path) ==
  IF path = <<"/">> THEN files
  ELSE LET normalizedPath == stripSlashes(toLowerCase(path))
           keeps(file) == containsParts(split(toLowerCase(file)), split(normalizedPath), 1, 0)
       IN SelectSeq(files, keeps)

GetNotesFromPath(files, path) ==
  /\ notes.pc = "none"
  /\ notes' = [NoNotes EXCEPT !.pc = "called", !.files = files, !.path = path]
  /\ UNCHANGED <<chainVars, memory, load, lookup, run, retrieval, laterLoad, context, extract>>

GetNotesFromPathReturns ==
  /\ notes.pc = "called"
  /\ notes' = [notes EXCEPT !.result = getNotesFromPath(notes.files, notes.path),
                            !.pc = "returned"]
  /\ UNCHANGED <<chainVars, memory, load, lookup, run, retrieval, laterLoad, context, extract>>

\* The notes under a path are asked for, the chain manager standing still.
NotesInit ==
  Start(Constructed(<<"gpt-4o", "openai">>, LLM_CHAIN, TRUE, NEVER, TRUE))

NotesNext ==
  \/ /\ notes.pc = "none"
     /\ \E files \in Vaults, path \in Paths : GetNotesFromPath(files, path)
  \/ GetNotesFromPathReturns

NotesSpec == NotesInit /\ [][NotesNext]_vars

\* the parts q occur in the parts f in order, each at a place of its own
RECURSIVE IsSubsequence(_, _)
IsSubsequence(q, f) ==
  IF q = <<>> THEN TRUE
  ELSE IF f = <<>> THEN FALSE
  ELSE IF Head(q) = Head(f) THEN IsSubsequence(Tail(q), Tail(f))
  ELSE IsSubsequence(q, Tail(f))

\* C31: getNotesFromPath returns all files for the path "/", and otherwise
\* exactly the files whose lower-cased path segments contain the segments of
\* the normalized path in order, each matched by a later segment of its own: a
\* file that holds a segment fewer times than the path repeats it is not
\* returned.
C31_SubsequenceOfSegments ==
  notes.pc = "returned" =>
    LET wanted(file) == IsSubsequence(split(stripSlashes(toLowerCase(notes.path))),
                                      split(toLowerCase(file)))
    IN notes.result = IF notes.path = <<"/">> THEN notes.files
                      ELSE SelectSeq(notes.files, wanted)

(* -------------------------- extractChatHistory ------------------------- *)

\* the content of a history entry: a text, the empty text, or none
Contents == {"question", "answer", "", UNDEFINED}
Histories == UNION { [1..n -> [content : Contents]] : n \in 0..MaxMessages }

\* history[i]?.content, i counted from 0: undefined beyond the end
contentAt(history, i) == IF i < Len(history) THEN history[i + 1].content ELSE UNDEFINED

\* v || "": the empty string for a missing or empty value
orEmpty(v) == IF v = UNDEFINED \/ v = "" THEN "" ELSE v

\* the loop stopping before an entry that has no partner
RECURSIVE extractFromPaired(_, _)
extractFromPaired(history, i) ==
  IF i + 1 >= Len(history) THEN <<>>
  ELSE <<<<orEmpty(contentAt(history, i)), orEmpty(contentAt(history, i + 1))>>>>
         \o extractFromPaired(history, i + 2)

\* the loop of extractChatHistory from index i on
RECURSIVE extractFrom(_, _)
extractFrom(history, i) ==
  IF i >= Len(history) THEN <<>>
  ELSE <<<<orEmpty(contentAt(history, i)), orEmpty(contentAt(history, i + 1))>>>>
         \o extractFrom(history, i + 2)

extractChatHistory(history) == extractFrom(history, 0)

ExtractChatHistory(history) ==
  /\ extract.pc = "none"
  /\ extract' = [NoExtract EXCEPT !.pc = "called", !.history = history]
  /\ UNCHANGED <<chainVars, memory, load, lookup, run, retrieval, laterLoad, context, notes>>

ExtractChatHistoryReturns ==
  /\ extract.pc = "called"
  /\ extract' = [extract EXCEPT !.result = extractChatHistory(extract.history),
                                !.pc = "returned"]
  /\ UNCHANGED <<chainVars, memory, load, lookup, run, retrieval, laterLoad, context, notes>>

\* The pairs of a memory history are asked for, the chain manager standing still.
ExtractInit ==
  Start(Constructed(<<"gpt-4o", "openai">>, LLM_CHAIN, TRUE, NEVER, TRUE))

ExtractNext ==
  \/ /\ extract.pc = "none"
     /\ \E history \in Histories : ExtractChatHistory(history)
  \/ ExtractChatHistoryReturns

ExtractSpec == ExtractInit /\ [][ExtractNext]_vars

\* C32: extractChatHistory pairs the history two entries at a time in order
\* and returns ceil(n/2) pairs for n entries: pair k (from 0) is the content of
\* entry 2k and the content of entry 2k+1, the empty string standing for a
\* missing or empty one, so an odd history ends with a pair whose second part
\* is empty.
C32_PairsWithEmptyForMissing ==
  extract.pc = "returned" =>
    LET h == extract.history
        r == extract.result
        n == Len(h)
        text(j) == IF j <= n /\ h[j].content \notin {UNDEFINED, ""}
                   THEN h[j].content ELSE ""
    IN /\ Len(r) = (n + 1) \div 2
       /\ \A k \in 1..Len(r) : r[k] = <<text(2 * k - 1), text(2 * k)>>
       /\ n % 2 = 1 => r[Len(r)][2] = ""

\* a history of three entries has given two pairs, the second with the third
\* entry's text and an empty second part
C32_Witness ==
  /\ extract.pc = "returned"
  /\ Len(extract.history) = 3
  /\ extract.history[3].content = "question"
  /\ Len(extract.result) = 2
  /\ extract.result[2] = <<"question", "">>

====
